---- MODULE Spec2Model ----
(***************************************************************************)
(* Model of nsfp's interactive playback loop (src/src/main.cc): startup    *)
(* validation, raw terminal scope, the key/escape-sequence decoder, track  *)
(* navigation, pause toggling and the reaction to the engine's end-of-     *)
(* track report.  The Player engine (player.h) is an external collaborator *)
(* whose answers are nondeterministic.                                     *)
(***************************************************************************)
EXTENDS Integers, Sequences, FiniteSets, TLC

\* ---- bounds -------------------------------------------------------------
MaxTracks == 3      \* track_count() ranges over 1..MaxTracks
MaxKeys == 4        \* total number of bytes the user types in a run
MaxPending == 2     \* bytes waiting unread on standard input

\* ---- bytes and commands -------------------------------------------------
ESC == "ESC"        \* '\033'
Bytes == {"q", " ", ESC, "[", "C", "D", "A", "x"}
NoByte == "none"    \* content of an unwritten char variable (never inspected)

Commands == {"None", "Quit", "TogglePause", "NextTrack", "PreviousTrack"}

VARIABLES
  pc,            \* position of main()
  opt_help, opt_input, opt_track, show_info, single,   \* parsed options
  track_count,   \* player->track_count() of the loaded file
  track, running, playing,                              \* locals of main()
  n0, ch, n1, n2, seq0, seq1,                           \* read() results of the iteration
  stdin, keys_typed,                                    \* pending input bytes, bytes typed so far
  term, raw_entered,                                    \* terminal mode, TerminalRawMode constructed
  exit_code,                                            \* process exit status, -1 while running
  eng_playing, eng_ended, eng_paused,                   \* engine: track audible, end pending, paused
  cmd,           \* command applied in the current iteration
  pre, mid,      \* session values at the start of the command step / of the end-of-track poll
  calls,         \* engine calls, reads and output lines since the last loop test, in order
  n_start, n_announce, n_pause, n_notice,               \* totals over the run
  last_pause_arg

vars == <<pc, opt_help, opt_input, opt_track, show_info, single, track_count,
          track, running, playing, n0, ch, n1, n2, seq0, seq1, stdin, keys_typed,
          term, raw_entered, exit_code, eng_playing, eng_ended, eng_paused,
          cmd, pre, mid, calls, n_start, n_announce, n_pause, n_notice,
          last_pause_arg>>

cfgVars == <<opt_help, opt_input, opt_track, show_info, single, track_count>>
localVars == <<n0, ch, n1, n2, seq0, seq1>>
engVars == <<eng_playing, eng_ended, eng_paused>>
cntVars == <<n_start, n_announce, n_pause, n_notice, last_pause_arg>>

Ev(op, arg, flag) == [op |-> op, arg |-> arg, flag |-> flag]
Snapshot == [track |-> track, running |-> running, playing |-> playing,
             n_start |-> n_start, n_announce |-> n_announce]

Init ==
  /\ pc = "parse"
  /\ opt_help \in BOOLEAN
  /\ opt_input \in BOOLEAN
  /\ opt_track \in 0..(MaxTracks + 1)
  /\ show_info \in BOOLEAN
  /\ single \in BOOLEAN
  /\ track_count \in 1..MaxTracks
  /\ track = 0 /\ running = FALSE /\ playing = FALSE
  /\ n0 = -1 /\ ch = NoByte /\ n1 = -1 /\ n2 = -1 /\ seq0 = NoByte /\ seq1 = NoByte
  /\ stdin = <<>> /\ keys_typed = 0
  /\ term = "cooked" /\ raw_entered = FALSE
  /\ exit_code = -1
  /\ eng_playing = FALSE /\ eng_ended = FALSE /\ eng_paused = FALSE
  /\ cmd = "None"
  /\ calls = <<>>
  /\ n_start = 0 /\ n_announce = 0 /\ n_pause = 0 /\ n_notice = 0
  /\ last_pause_arg = FALSE
  /\ pre = Snapshot /\ mid = Snapshot

\* ---- startup ------------------------------------------------------------
\* variant: the 1-based option value is used as the index without subtracting 1
ParseArgsOneBased ==
  /\ pc = "parse"
  /\ IF opt_help \/ ~opt_input
       THEN /\ pc' = "exited"
            /\ exit_code' = (IF opt_help THEN 0 ELSE 1)
            /\ track' = track
            /\ calls' = Append(calls, Ev("help", 0, FALSE))
       ELSE /\ pc' = "sdl_init"
            /\ exit_code' = exit_code
            /\ track' = opt_track
            /\ calls' = calls
  /\ UNCHANGED <<cfgVars, running, playing, localVars, stdin, keys_typed, term,
                 raw_entered, engVars, cmd, pre, mid, cntVars>>

\* lines 102-112: parse options; help or missing input prints help and returns
ParseArgs ==
  /\ pc = "parse"
  /\ IF opt_help \/ ~opt_input
       THEN /\ pc' = "exited"
            /\ exit_code' = (IF opt_help THEN 0 ELSE 1)
            /\ track' = track
            /\ calls' = Append(calls, Ev("help", 0, FALSE))
       ELSE /\ pc' = "sdl_init"
            /\ exit_code' = exit_code
            /\ track' = opt_track - 1
            /\ calls' = calls
  /\ UNCHANGED <<cfgVars, running, playing, localVars, stdin, keys_typed, term,
                 raw_entered, engVars, cmd, pre, mid, cntVars>>

startupFrame == <<cfgVars, track, running, playing, localVars, stdin, keys_typed,
                  term, raw_entered, engVars, cmd, pre, mid, cntVars>>

\* lines 114-118: SDL_Init(SDL_INIT_AUDIO) may fail
SdlInit ==
  /\ pc = "sdl_init"
  /\ \E ok \in BOOLEAN :
       IF ok THEN pc' = "player_init" /\ exit_code' = exit_code /\ calls' = calls
             ELSE /\ pc' = "exited" /\ exit_code' = 1
                  /\ calls' = Append(calls, Ev("sdl_failed", 0, FALSE))
  /\ UNCHANGED startupFrame

\* lines 120-129: player->init() may fail
PlayerInit ==
  /\ pc = "player_init"
  /\ \E ok \in BOOLEAN :
       IF ok THEN pc' = "load_file" /\ exit_code' = exit_code /\ calls' = calls
             ELSE /\ pc' = "exited" /\ exit_code' = 1
                  /\ calls' = Append(calls, Ev("init_failed", 0, FALSE))
  /\ UNCHANGED startupFrame

\* lines 131-134: player->load_file(input) may fail
LoadFile ==
  /\ pc = "load_file"
  /\ \E ok \in BOOLEAN :
       IF ok THEN pc' = "validate" /\ exit_code' = exit_code /\ calls' = calls
             ELSE /\ pc' = "exited" /\ exit_code' = 1
                  /\ calls' = Append(calls, Ev("load_failed", 0, FALSE))
  /\ UNCHANGED startupFrame

\* variant: the upper range test accepts track == track_count
ValidateTrackOffByOne ==
  /\ pc = "validate"
  /\ IF track < 0 \/ track > track_count
       THEN /\ pc' = "exited" /\ exit_code' = 1
            /\ calls' = Append(calls, Ev("invalid_track", track_count, FALSE))
       ELSE pc' = "raw_mode" /\ exit_code' = exit_code /\ calls' = calls
  /\ UNCHANGED <<cfgVars, track, running, playing, localVars, stdin, keys_typed,
                 term, raw_entered, engVars, cmd, pre, mid, cntVars>>

\* lines 136-140: range check of the starting track
ValidateTrack ==
  /\ pc = "validate"
  /\ IF track < 0 \/ track >= track_count
       THEN /\ pc' = "exited" /\ exit_code' = 1
            /\ calls' = Append(calls, Ev("invalid_track", track_count, FALSE))
       ELSE pc' = "raw_mode" /\ exit_code' = exit_code /\ calls' = calls
  /\ UNCHANGED <<cfgVars, track, running, playing, localVars, stdin, keys_typed,
                 term, raw_entered, engVars, cmd, pre, mid, cntVars>>

\* lines 142-145 (TerminalRawMode constructor, lines 38-44)
EnterRawMode ==
  /\ pc = "raw_mode"
  /\ term' = "raw" /\ raw_entered' = TRUE
  /\ running' = TRUE /\ playing' = TRUE
  /\ pc' = "first_start"
  /\ UNCHANGED <<cfgVars, track, localVars, stdin, keys_typed, exit_code,
                 engVars, cmd, pre, mid, calls, cntVars>>

\* ---- the engine (player.h, not part of src/) ------------------------------
\* track_ended(): non-blocking query, true exactly once per natural completion
TrackEndedResult == eng_ended

\* the engine finishes rendering the track it is playing
TrackEnds ==
  /\ pc \in {"loop", "read", "seq0", "seq1", "delay"}
  /\ eng_playing /\ ~eng_ended
  /\ eng_playing' = FALSE /\ eng_ended' = TRUE
  /\ UNCHANGED <<pc, cfgVars, track, running, playing, localVars, stdin, keys_typed,
                 term, raw_entered, exit_code, eng_paused, cmd, pre, mid, calls,
                 cntVars>>

\* the user types one byte on the terminal.  The program sees typed bytes only
\* through read(), so a byte typed at any other moment is the same to it as a
\* byte typed just before its next read(): arrival is placed at the three read
\* points, before or between the reads of one iteration.
KeyArrives ==
  /\ pc \in {"read", "seq0", "seq1"}
  /\ keys_typed < MaxKeys /\ Len(stdin) < MaxPending
  /\ \E b \in Bytes : stdin' = Append(stdin, b)
  /\ keys_typed' = keys_typed + 1
  /\ UNCHANGED <<pc, cfgVars, track, running, playing, localVars, term, raw_entered,
                 exit_code, engVars, cmd, pre, mid, calls, cntVars>>

\* ---- start_track (lines 50-85) --------------------------------------------
\* Calls the engine; on error prints it and exit(1)s (no stack unwinding, so the
\* TerminalRawMode destructor does not run); otherwise prints the announcement
\* and the caller continues at okpc with exit status okcode and terminal okterm.
\* variant: the error is printed but exit(1) is missing, the caller carries on
StartTrackNoExit(t, dry, log, pend, okpc, okcode, okterm) ==
  /\ n_start' = n_start + 1
  /\ \E err \in BOOLEAN :
       IF err
         THEN /\ pc' = okpc /\ exit_code' = okcode /\ term' = okterm
              /\ n_announce' = n_announce
              /\ calls' = log \o <<Ev("start_track", t, dry), Ev("error", t, FALSE)>>
              /\ eng_ended' = pend
              /\ UNCHANGED <<eng_playing, eng_paused>>
         ELSE /\ pc' = okpc /\ exit_code' = okcode /\ term' = okterm
              /\ n_announce' = n_announce + 1
              /\ calls' = log \o <<Ev("start_track", t, dry), Ev("announce", t, FALSE)>>
              /\ eng_playing' = ~dry /\ eng_ended' = FALSE
              /\ UNCHANGED eng_paused

StartTrack(t, dry, log, pend, okpc, okcode, okterm) ==
  /\ n_start' = n_start + 1
  /\ \E err \in BOOLEAN :
       IF err
         THEN /\ pc' = "exited" /\ exit_code' = 1 /\ term' = term
              /\ n_announce' = n_announce
              /\ calls' = log \o <<Ev("start_track", t, dry), Ev("error", t, FALSE)>>
              /\ eng_ended' = pend
              /\ UNCHANGED <<eng_playing, eng_paused>>
         ELSE /\ pc' = okpc /\ exit_code' = okcode /\ term' = okterm
              /\ n_announce' = n_announce + 1
              /\ calls' = log \o <<Ev("start_track", t, dry), Ev("announce", t, FALSE)>>
              /\ eng_playing' = ~dry /\ eng_ended' = FALSE
              /\ UNCHANGED eng_paused

\* variant: the return after the info-only start is missing
InitialStartNoReturn ==
  /\ pc = "first_start"
  /\ StartTrack(track, show_info, calls, eng_ended, "loop", exit_code, term)
  /\ UNCHANGED <<cfgVars, track, running, playing, localVars, stdin, keys_typed,
                 raw_entered, cmd, pre, mid, n_pause, n_notice, last_pause_arg>>

\* lines 147-148: first start; with -i the process returns 0 right after it
\* (return from main runs ~TerminalRawMode, lines 45-47)
InitialStart ==
  /\ pc = "first_start"
  /\ IF show_info
       THEN StartTrack(track, TRUE, calls, eng_ended, "exited", 0, "cooked")
       ELSE StartTrack(track, FALSE, calls, eng_ended, "loop", exit_code, term)
  /\ UNCHANGED <<cfgVars, track, running, playing, localVars, stdin, keys_typed,
                 raw_entered, cmd, pre, mid, n_pause, n_notice, last_pause_arg>>

\* ---- the input decoder (branch structure of lines 152-181) -----------------
\* variant: the final else of the key test quits instead of ignoring the byte
DecodeQuitOnOther(r0, c, r1, s0, r2, s1) ==
  IF r0 <= 0 THEN "None"
  ELSE IF c = " " THEN "TogglePause"
  ELSE IF c = ESC THEN
         IF r1 = 1 /\ r2 = 1 /\ s0 = "["
           THEN IF s1 = "C" THEN "NextTrack"
                ELSE IF s1 = "D" THEN "PreviousTrack"
                ELSE "None"
           ELSE "Quit"
  ELSE "Quit"

\* variant: the second byte of the sequence is not compared with '['
DecodeAnyIntroducer(r0, c, r1, s0, r2, s1) ==
  IF r0 <= 0 THEN "None"
  ELSE IF c = "q" THEN "Quit"
  ELSE IF c = " " THEN "TogglePause"
  ELSE IF c = ESC THEN
         IF r1 = 1 /\ r2 = 1
           THEN IF s1 = "C" THEN "NextTrack"
                ELSE IF s1 = "D" THEN "PreviousTrack"
                ELSE "None"
           ELSE "Quit"
  ELSE "None"

\* variant: ESC [ followed by an unknown letter falls into the quit branch
DecodeQuitOnUnknown(r0, c, r1, s0, r2, s1) ==
  IF r0 <= 0 THEN "None"
  ELSE IF c = "q" THEN "Quit"
  ELSE IF c = " " THEN "TogglePause"
  ELSE IF c = ESC THEN
         IF r1 = 1 /\ r2 = 1 /\ s0 = "[" /\ s1 = "C" THEN "NextTrack"
         ELSE IF r1 = 1 /\ r2 = 1 /\ s0 = "[" /\ s1 = "D" THEN "PreviousTrack"
         ELSE "Quit"
  ELSE "None"

Decode(r0, c, r1, s0, r2, s1) ==
  IF r0 <= 0 THEN "None"
  ELSE IF c = "q" THEN "Quit"
  ELSE IF c = " " THEN "TogglePause"
  ELSE IF c = ESC THEN
         IF r1 = 1 /\ r2 = 1 /\ s0 = "["
           THEN IF s1 = "C" THEN "NextTrack"
                ELSE IF s1 = "D" THEN "PreviousTrack"
                ELSE "None"
           ELSE "Quit"
  ELSE "None"

\* ---- applying a command -----------------------------------------------------
\* variant: quitting leaves the iteration at once, skipping the rest of the body
QuitSkipsPoll(log) ==
  /\ running' = FALSE
  /\ pc' = "loop" /\ calls' = log
  /\ UNCHANGED <<track, playing, exit_code, term, engVars, cntVars>>

\* line 154 / line 179
Quit(log) ==
  /\ running' = FALSE
  /\ pc' = "delay" /\ calls' = log
  /\ UNCHANGED <<track, playing, exit_code, term, engVars, cntVars>>

\* variant: is_playing is negated before it is passed to the engine
TogglePauseFlipFirst(log) ==
  /\ eng_paused' = ~playing
  /\ last_pause_arg' = ~playing
  /\ n_pause' = n_pause + 1
  /\ n_notice' = n_notice + 1
  /\ calls' = log \o <<Ev("pause", 0, ~playing), Ev("notice", 0, ~playing)>>
  /\ playing' = ~playing
  /\ pc' = "delay"
  /\ UNCHANGED <<track, running, exit_code, term, eng_playing, eng_ended,
                 n_start, n_announce>>

\* lines 156-158
TogglePause(log) ==
  /\ eng_paused' = playing
  /\ last_pause_arg' = playing
  /\ n_pause' = n_pause + 1
  /\ n_notice' = n_notice + 1
  /\ calls' = log \o <<Ev("pause", 0, playing), Ev("notice", 0, playing)>>
  /\ playing' = ~playing
  /\ pc' = "delay"
  /\ UNCHANGED <<track, running, exit_code, term, eng_playing, eng_ended,
                 n_start, n_announce>>

NoCommand(log) ==
  /\ pc' = "delay" /\ calls' = log
  /\ UNCHANGED <<track, running, playing, exit_code, term, engVars, cntVars>>

\* variant: a track change also marks the session as playing
NextTrackResumes(log) ==
  IF track < track_count - 1
    THEN /\ track' = track + 1
         /\ playing' = TRUE
         /\ StartTrack(track + 1, FALSE, log, eng_ended, "delay", exit_code, term)
         /\ UNCHANGED <<running, n_pause, n_notice, last_pause_arg>>
    ELSE NoCommand(log)

\* variant: right arrow without the upper range check
NextTrackUnchecked(log) ==
  /\ track' = track + 1
  /\ StartTrack(track + 1, FALSE, log, eng_ended, "delay", exit_code, term)
  /\ UNCHANGED <<running, playing, n_pause, n_notice, last_pause_arg>>

\* variant: right arrow starts the track before incrementing the index
NextTrackStartsOld(log) ==
  IF track < track_count - 1
    THEN /\ track' = track + 1
         /\ StartTrack(track, FALSE, log, eng_ended, "delay", exit_code, term)
         /\ UNCHANGED <<running, playing, n_pause, n_notice, last_pause_arg>>
    ELSE NoCommand(log)

\* lines 166-170
NextTrack(log) ==
  IF track < track_count - 1
    THEN /\ track' = track + 1
         /\ StartTrack(track + 1, FALSE, log, eng_ended, "delay", exit_code, term)
         /\ UNCHANGED <<running, playing, n_pause, n_notice, last_pause_arg>>
    ELSE NoCommand(log)

\* variant: left arrow on the first track ends the session
PreviousTrackQuitsAtZero(log) ==
  IF track > 0
    THEN /\ track' = track - 1
         /\ StartTrack(track - 1, FALSE, log, eng_ended, "delay", exit_code, term)
         /\ UNCHANGED <<running, playing, n_pause, n_notice, last_pause_arg>>
    ELSE Quit(log)

\* variant: left arrow without the lower range check
PreviousTrackUnchecked(log) ==
  /\ track' = track - 1
  /\ StartTrack(track - 1, FALSE, log, eng_ended, "delay", exit_code, term)
  /\ UNCHANGED <<running, playing, n_pause, n_notice, last_pause_arg>>

\* lines 171-175
PreviousTrack(log) ==
  IF track > 0
    THEN /\ track' = track - 1
         /\ StartTrack(track - 1, FALSE, log, eng_ended, "delay", exit_code, term)
         /\ UNCHANGED <<running, playing, n_pause, n_notice, last_pause_arg>>
    ELSE NoCommand(log)

Apply(c, log) ==
  /\ cmd' = c
  /\ CASE c = "Quit" -> Quit(log)
       [] c = "TogglePause" -> TogglePause(log)
       [] c = "NextTrack" -> NextTrack(log)
       [] c = "PreviousTrack" -> PreviousTrack(log)
       [] OTHER -> NoCommand(log)

\* read(STDIN_FILENO, &x, 1) on the non-blocking descriptor
ReadCount == IF stdin # <<>> THEN 1 ELSE -1
ReadByte(old) == IF stdin # <<>> THEN Head(stdin) ELSE old
ReadRest == IF stdin # <<>> THEN Tail(stdin) ELSE stdin

\* ---- the loop (lines 150-194) ------------------------------------------------
\* variant: the loop condition is not tested, the body is entered again
LoopTestNeverExits ==
  /\ pc = "loop"
  /\ pc' = "read"
  /\ n0' = -1 /\ ch' = NoByte /\ n1' = -1 /\ n2' = -1 /\ seq0' = NoByte /\ seq1' = NoByte
  /\ calls' = <<>>
  /\ cmd' = "Pending"
  /\ UNCHANGED <<cfgVars, track, running, playing, stdin, keys_typed, raw_entered,
                 engVars, pre, mid, cntVars, exit_code, term>>

\* line 150 and, on leaving the loop, lines 196-197 plus ~TerminalRawMode
LoopTest ==
  /\ pc = "loop"
  /\ IF running
       THEN /\ pc' = "read"
            /\ UNCHANGED <<exit_code, term>>
       ELSE /\ pc' = "exited"
            /\ exit_code' = 0
            /\ term' = "cooked"
  /\ n0' = -1 /\ ch' = NoByte /\ n1' = -1 /\ n2' = -1 /\ seq0' = NoByte /\ seq1' = NoByte
  /\ calls' = IF running THEN <<>> ELSE calls
  /\ cmd' = IF running THEN "Pending" ELSE cmd
  /\ UNCHANGED <<cfgVars, track, running, playing, stdin, keys_typed, raw_entered,
                 engVars, pre, mid, cntVars>>

\* line 152 and the single-byte branches 153-158
ReadKey ==
  /\ pc = "read"
  /\ pre' = Snapshot
  /\ n0' = ReadCount /\ ch' = ReadByte(ch) /\ stdin' = ReadRest
  /\ IF ReadCount = 1 /\ ReadByte(ch) = ESC
       THEN /\ pc' = "seq0"
            /\ calls' = Append(calls, Ev("read", ReadCount, FALSE))
            /\ UNCHANGED <<track, running, playing, exit_code, term, engVars,
                           cntVars, cmd>>
       ELSE Apply(Decode(ReadCount, ReadByte(ch), n1, seq0, n2, seq1),
                  Append(calls, Ev("read", ReadCount, FALSE)))
  /\ UNCHANGED <<cfgVars, n1, n2, seq0, seq1, keys_typed, raw_entered, mid>>

\* line 162
ReadSeq0 ==
  /\ pc = "seq0"
  /\ n1' = ReadCount /\ seq0' = ReadByte(seq0) /\ stdin' = ReadRest
  /\ calls' = Append(calls, Ev("read", ReadCount, FALSE))
  /\ pc' = "seq1"
  /\ UNCHANGED <<cfgVars, track, running, playing, n0, ch, n2, seq1, keys_typed,
                 term, raw_entered, exit_code, engVars, cmd, pre, mid, cntVars>>

\* line 163 and the escape branches 165-180
ReadSeq1 ==
  /\ pc = "seq1"
  /\ n2' = ReadCount /\ seq1' = ReadByte(seq1) /\ stdin' = ReadRest
  /\ Apply(Decode(n0, ch, n1, seq0, ReadCount, ReadByte(seq1)),
           Append(calls, Ev("read", ReadCount, FALSE)))
  /\ UNCHANGED <<cfgVars, n0, ch, n1, seq0, keys_typed, raw_entered, pre, mid>>

\* variant: the last track is not recognised, only -s stops the session
SessionOverIgnoresLast == single

\* variant: -s is not consulted, only the last track stops the session
SessionOverIgnoresSingle == track = track_count - 1

\* line 187: a completed track ends the session instead of advancing
SessionOver == single \/ track = track_count - 1

\* lines 184-193: SDL_Delay, then the end-of-track poll
PollTrackEnd ==
  /\ pc = "delay"
  /\ mid' = Snapshot
  /\ IF TrackEndedResult
       THEN IF SessionOver
              THEN /\ running' = FALSE
                   /\ pc' = "loop"
                   /\ calls' = Append(calls, Ev("track_ended", 0, TRUE))
                   /\ eng_ended' = FALSE
                   /\ UNCHANGED <<track, exit_code, term, eng_playing, eng_paused,
                                  n_start, n_announce>>
              ELSE /\ track' = track + 1
                   /\ StartTrack(track + 1, FALSE,
                                 Append(calls, Ev("track_ended", 0, TRUE)), FALSE,
                                 "loop", exit_code, term)
                   /\ UNCHANGED running
       ELSE /\ pc' = "loop"
            /\ calls' = Append(calls, Ev("track_ended", 0, FALSE))
            /\ UNCHANGED <<track, running, exit_code, term, engVars, n_start,
                           n_announce>>
  /\ UNCHANGED <<cfgVars, playing, localVars, stdin, keys_typed, raw_entered, cmd,
                 pre, n_pause, n_notice, last_pause_arg>>

Next ==
  \/ ParseArgs \/ SdlInit \/ PlayerInit \/ LoadFile \/ ValidateTrack
  \/ EnterRawMode \/ InitialStart
  \/ LoopTest \/ ReadKey \/ ReadSeq0 \/ ReadSeq1 \/ PollTrackEnd
  \/ KeyArrives \/ TrackEnds

Spec == Init /\ [][Next]_vars

TypeOK ==
  /\ pc \in {"parse", "sdl_init", "player_init", "load_file", "validate", "raw_mode",
             "first_start", "loop", "read", "seq0", "seq1", "delay", "exited"}
  /\ track \in -1..MaxTracks
  /\ running \in BOOLEAN /\ playing \in BOOLEAN
  /\ cmd \in Commands \cup {"Pending"}
  /\ exit_code \in {-1, 0, 1}
  /\ term \in {"cooked", "raw"}

\* ---- observation helpers ------------------------------------------------------
\* the command step of the current iteration has run to its end
CommandStepDone == pc \notin {"read", "seq0", "seq1"} /\ cmd # "Pending"

\* position of the end-of-track query in the iteration's log (Len+1 if not yet made)
PollPos ==
  IF \E i \in DOMAIN calls : calls[i].op = "track_ended"
    THEN CHOOSE i \in DOMAIN calls :
           /\ calls[i].op = "track_ended"
           /\ \A j \in 1..(i - 1) : calls[j].op # "track_ended"
    ELSE Len(calls) + 1

AfterPoll == PollPos <= Len(calls)
PollEnded == AfterPoll /\ calls[PollPos].flag

\* what the command step / the poll step of this iteration did with the engine
IsEngineEvent(e) == e.op \in {"start_track", "announce", "error", "pause", "notice"}
CmdCalls == SelectSeq(SubSeq(calls, 1, PollPos - 1), IsEngineEvent)
PollCalls == SelectSeq(SubSeq(calls, PollPos + 1, Len(calls)), IsEngineEvent)

\* session values when the command step finished
CmdResult == IF AfterPoll THEN mid ELSE Snapshot

InSession == pc \in {"first_start", "loop", "read", "seq0", "seq1", "delay"}
               \/ (pc = "exited" /\ raw_entered)

\* ---- claims ---------------------------------------------------------------------

\* C1: once the starting track has been validated, 0 <= current_track < track_count
\* holds in every state, whatever keys arrive and whatever the engine reports.
C1_TrackInRange == InSession => (0 <= track /\ track < track_count)

\* a right-arrow move followed by an automatic advance has reached the last track
C1_Witness ==
  /\ pc = "loop" /\ cmd = "NextTrack" /\ PollEnded
  /\ pre.track = 0 /\ mid.track = 1 /\ track = 2 /\ track_count = 3

\* C2 (as claimed): whenever the process has ended after raw mode was entered,
\* the terminal is back in its original mode.
C2_TerminalRestored == (pc = "exited" /\ raw_entered) => term = "cooked"

\* C3 (as claimed): after a Quit command has cleared is_running, no step changes
\* current_track or is_playing, calls start_track or announces a track.
C3_QuitAbsorbing ==
  [][(cmd = "Quit" /\ ~running)
       => (track' = track /\ playing' = playing /\ n_start' = n_start
           /\ n_announce' = n_announce)]_vars

\* C4: ESC [ C decodes to NextTrack, ESC [ D to PreviousTrack, ESC with no further
\* byte to Quit, and ESC x (third byte present or not) to Quit.
C4_Decoder ==
  (CommandStepDone /\ n0 = 1 /\ ch = ESC) =>
    /\ (n1 = 1 /\ seq0 = "[" /\ n2 = 1 /\ seq1 = "C") => cmd = "NextTrack"
    /\ (n1 = 1 /\ seq0 = "[" /\ n2 = 1 /\ seq1 = "D") => cmd = "PreviousTrack"
    /\ (n1 # 1 /\ n2 # 1) => cmd = "Quit"
    /\ (n1 = 1 /\ seq0 = "x") => cmd = "Quit"

\* ESC x followed by a third byte that would be an arrow letter was decoded as Quit
C4_Witness ==
  /\ pc = "delay" /\ n0 = 1 /\ ch = ESC /\ n1 = 1 /\ seq0 = "x"
  /\ n2 = 1 /\ seq1 = "C" /\ cmd = "Quit" /\ ~running

C6_BoundaryNoOp ==
  (CommandStepDone
     /\ \/ (cmd = "NextTrack" /\ pre.track = track_count - 1)
        \/ (cmd = "PreviousTrack" /\ pre.track = 0))
    => /\ CmdResult.track = pre.track
       /\ CmdResult.playing = pre.playing
       /\ CmdResult.running = pre.running
       /\ CmdResult.n_start = pre.n_start
       /\ CmdResult.n_announce = pre.n_announce
       /\ CmdCalls = <<>>
       /\ (pc = "exited" => AfterPoll)

\* a left-arrow on track 0 of a file with several tracks has been applied
C6_Witness ==
  /\ pc = "delay" /\ cmd = "PreviousTrack" /\ pre.track = 0 /\ track = 0
  /\ track_count > 1 /\ running

\* C7: NextTrack below the last track adds exactly 1 to current_track, PreviousTrack
\* above track 0 subtracts exactly 1, and either calls start_track exactly once,
\* with the new index and dry_run = false.
C7_TrackChange ==
  /\ (CommandStepDone /\ cmd = "NextTrack" /\ pre.track < track_count - 1)
       => /\ CmdResult.track = pre.track + 1
          /\ CmdResult.n_start = pre.n_start + 1
          /\ Len(CmdCalls) = 2
          /\ CmdCalls[1] = Ev("start_track", pre.track + 1, FALSE)
          /\ CmdCalls[2].op # "start_track"
  /\ (CommandStepDone /\ cmd = "PreviousTrack" /\ pre.track > 0)
       => /\ CmdResult.track = pre.track - 1
          /\ CmdResult.n_start = pre.n_start + 1
          /\ Len(CmdCalls) = 2
          /\ CmdCalls[1] = Ev("start_track", pre.track - 1, FALSE)
          /\ CmdCalls[2].op # "start_track"

\* a left-arrow moved the session from the last track of three to the middle one
C7_Witness ==
  /\ pc = "delay" /\ cmd = "PreviousTrack" /\ pre.track = 2 /\ track = 1
  /\ n_start = pre.n_start + 1

\* C8: TogglePause passes the old is_playing to the engine's pause, then negates
\* is_playing and prints one notice; is_playing is true exactly when an even number
\* of TogglePause commands has been applied, with one notice per command.
C8_TogglePause ==
  /\ raw_entered => (playing <=> (n_pause % 2 = 0))
  /\ n_notice = n_pause
  /\ (CommandStepDone /\ cmd = "TogglePause")
       => /\ last_pause_arg = pre.playing
          /\ CmdResult.playing = ~pre.playing
          /\ CmdCalls = <<Ev("pause", 0, pre.playing), Ev("notice", 0, pre.playing)>>

\* the second TogglePause of a run has just brought is_playing back to true
C8_Witness ==
  /\ pc = "delay" /\ cmd = "TogglePause" /\ n_pause = 2 /\ n_notice = 2
  /\ playing /\ ~pre.playing

\* C9 (as claimed): without -s, a natural completion below the last track adds 1 to
\* current_track with exactly one start_track call and one announcement; on the last
\* track it clears is_running and calls nothing.
C9_AutoAdvanceAnnounces ==
  (PollEnded /\ ~single) =>
    IF mid.track < track_count - 1
      THEN /\ track = mid.track + 1
           /\ n_start = mid.n_start + 1
           /\ n_announce = mid.n_announce + 1
      ELSE /\ ~running /\ track = mid.track
           /\ n_start = mid.n_start /\ n_announce = mid.n_announce

\* C9 (amended): as claimed, except that the announcement is printed only when the
\* start_track call succeeds; when it fails the process exits with status 1 and
\* prints no announcement.
C9_AutoAdvance ==
  (PollEnded /\ ~single) =>
    IF mid.track < track_count - 1
      THEN /\ track = mid.track + 1
           /\ n_start = mid.n_start + 1
           /\ Len(PollCalls) = 2
           /\ PollCalls[1] = Ev("start_track", mid.track + 1, FALSE)
           /\ \/ /\ PollCalls[2] = Ev("announce", mid.track + 1, FALSE)
                 /\ n_announce = mid.n_announce + 1
                 /\ running = mid.running
              \/ /\ PollCalls[2].op = "error"
                 /\ n_announce = mid.n_announce
                 /\ pc = "exited" /\ exit_code = 1
      ELSE /\ ~running /\ track = mid.track
           /\ n_start = mid.n_start /\ n_announce = mid.n_announce
           /\ PollCalls = <<>>

\* the first track of several ended by itself and the second one was announced
C9_Witness ==
  /\ pc = "loop" /\ PollEnded /\ ~single /\ mid.track = 0 /\ track = 1
  /\ n_announce = mid.n_announce + 1 /\ running

\* C10: with -s, a natural completion clears is_running on every track, leaves
\* current_track alone and does not call start_track.
C10_SingleStops ==
  (PollEnded /\ single) =>
    /\ ~running
    /\ track = mid.track
    /\ n_start = mid.n_start /\ n_announce = mid.n_announce
    /\ PollCalls = <<>>

\* with -s, a track that is not the last one ended and the session stopped there
C10_Witness ==
  /\ pc = "loop" /\ PollEnded /\ single /\ track < track_count - 1
  /\ mid.running /\ ~running

IsRead(e) == e.op = "read"

\* the loop is about to be tested for the first time: no iteration has read yet
FirstLoopEntry == pc = "loop" /\ SelectSeq(calls, IsRead) = <<>>

\* C11: for every track count N and requested zero-based track t in 0..N-1, the
\* loop is entered with current_track = t, is_running and is_playing true, after
\* exactly one start_track call, made for index t.
C11_InitialSession ==
  FirstLoopEntry =>
    /\ track = opt_track - 1
    /\ 0 <= track /\ track < track_count
    /\ running /\ playing
    /\ n_start = 1
    /\ calls = <<Ev("start_track", track, FALSE), Ev("announce", track, FALSE)>>

\* the session starts on the last of three tracks
C11_Witness ==
  /\ FirstLoopEntry /\ opt_track = 3 /\ track_count = 3 /\ track = 2
  /\ running /\ playing /\ n_start = 1

\* C12: a requested track outside 1..track_count is fatal at startup: the process
\* exits with status 1 (unless help was requested), start_track is never called,
\* raw terminal mode is never entered and the loop is never reached.
C12_InvalidTrackFatal ==
  (opt_track < 1 \/ opt_track > track_count) =>
    /\ ~raw_entered /\ term = "cooked"
    /\ n_start = 0 /\ n_announce = 0
    /\ pc \in {"parse", "sdl_init", "player_init", "load_file", "validate", "exited"}
    /\ SelectSeq(calls, IsRead) = <<>>
    /\ (pc = "exited" /\ opt_input /\ ~opt_help) => exit_code = 1

\* track 4 was requested of a file with 3 tracks and the range check rejected it
C12_Witness ==
  /\ pc = "exited" /\ exit_code = 1 /\ opt_track = 4 /\ track_count = 3
  /\ calls = <<Ev("invalid_track", 3, FALSE)>> /\ ~raw_entered

\* C13 (as claimed): with -i, once startup validation has passed, exactly one
\* start_track call (dry run) and one announcement occur, the exit status is 0, the
\* loop is not entered and nothing is read from standard input.
C13_InfoOnly ==
  (show_info /\ raw_entered /\ pc # "first_start") =>
    /\ pc = "exited" /\ exit_code = 0
    /\ n_start = 1 /\ n_announce = 1
    /\ calls = <<Ev("start_track", track, TRUE), Ev("announce", track, FALSE)>>
    /\ cmd = "None"

\* C13 (amended): with -i, once startup validation has passed, exactly one
\* start_track call is made, with dry_run = true, the loop is never entered and
\* nothing is read; if the call succeeds there is exactly one announcement and the
\* exit status is 0, if it fails there is none and the exit status is 1.
C13_InfoOnlyStart ==
  /\ show_info => (pc \notin {"loop", "read", "seq0", "seq1", "delay"}
                    /\ cmd = "None" /\ SelectSeq(calls, IsRead) = <<>>)
  /\ (show_info /\ raw_entered /\ pc # "first_start") =>
       /\ pc = "exited"
       /\ n_start = 1
       /\ Len(calls) = 2
       /\ calls[1] = Ev("start_track", track, TRUE)
       /\ \/ /\ calls[2] = Ev("announce", track, FALSE)
             /\ n_announce = 1 /\ exit_code = 0
          \/ /\ calls[2] = Ev("error", track, FALSE)
             /\ n_announce = 0 /\ exit_code = 1

\* the info-only run announced its track and returned 0
C13_Witness ==
  /\ show_info /\ pc = "exited" /\ exit_code = 0 /\ n_start = 1 /\ n_announce = 1
  /\ term = "cooked" /\ ~eng_playing

\* the engine refused a start_track call
StartFailed == \E i \in DOMAIN calls : calls[i].op = "error"

\* C14: a start_track failure, wherever it happens, ends the process at once with
\* the error reported and status 1: the failed call is the last thing done (no
\* announcement, no second call, no read, no further step), and every earlier call
\* had succeeded.
C14_StartFailureFatal ==
  /\ StartFailed =>
       /\ pc = "exited" /\ exit_code = 1
       /\ calls[Len(calls)].op = "error"
       /\ calls[Len(calls) - 1].op = "start_track"
       /\ calls[Len(calls) - 1].arg = calls[Len(calls)].arg
       /\ calls[Len(calls)].arg = track
       /\ Cardinality({i \in DOMAIN calls : calls[i].op = "error"}) = 1
       /\ ~ENABLED Next
  /\ n_start = n_announce + (IF StartFailed THEN 1 ELSE 0)

\* an automatic advance to the next track failed and the process ended with status 1
C14_Witness ==
  /\ StartFailed /\ PollEnded /\ pc = "exited" /\ exit_code = 1
  /\ track = mid.track + 1 /\ n_announce = mid.n_announce

\* C15: is_running goes from true to false only in the step that handles a 'q', in
\* the step that classifies an ESC as bare or unrecognised, or in the poll of a
\* natural completion under -s or on the last track; once false it stays false.
C15_RunningCleared ==
  [][(/\ (running /\ ~running') =>
           \/ (pc = "read" /\ n0' = 1 /\ ch' = "q")
           \/ (pc = "seq1" /\ ch' = ESC /\ ~(n1' = 1 /\ n2' = 1 /\ seq0' = "["))
           \/ (pc = "delay" /\ eng_ended /\ (single \/ track = track_count - 1))
      /\ (raw_entered /\ ~running) => ~running')]_vars

\* a 'q' has just cleared is_running
C15_Witness ==
  /\ pc = "delay" /\ cmd = "Quit" /\ n0 = 1 /\ ch = "q" /\ pre.running /\ ~running

\* the session ended by a Quit command or by a completion that stops it
CleanEnd ==
  \/ cmd = "Quit"
  \/ (PollEnded /\ (single \/ mid.track = track_count - 1))

IsFailureReport(e) ==
  e.op \in {"help", "sdl_failed", "init_failed", "load_failed", "invalid_track", "error"}

\* C16 (as claimed): a session ended by 'q', a bare ESC or a terminating natural
\* completion exits with status 0, and status 1 occurs only together with a
\* reported argument, engine or audio failure or an out-of-range track number.
C16_ExitCodes ==
  /\ (pc = "exited" /\ raw_entered /\ CleanEnd) => exit_code = 0
  /\ exit_code = 1 => SelectSeq(calls, IsFailureReport) # <<>>

IsPoll(e) == e.op = "track_ended"

\* C17: every loop iteration queries track_ended exactly once, after its reads and
\* after the command has been applied, whatever the command was.
C17_PollOncePerIteration ==
  /\ Len(SelectSeq(calls, IsPoll)) <= 1
  /\ AfterPoll => (pc \in {"loop", "exited"} /\ cmd # "Pending")
  /\ (pc = "loop" /\ ~FirstLoopEntry) =>
       /\ Len(SelectSeq(calls, IsPoll)) = 1
       /\ calls[1].op = "read"
       /\ \A i \in DOMAIN calls :
            calls[i].op \in {"read", "pause", "notice"} => i < PollPos
       /\ Len(SelectSeq(SubSeq(calls, 1, PollPos - 1), LAMBDA e : e.op = "start_track"))
            = mid.n_start - pre.n_start
       /\ (cmd \in {"NextTrack", "PreviousTrack"} /\ mid.track # pre.track)
            => mid.n_start = pre.n_start + 1

\* an iteration that changed the track has made its one query after the new
\* track's announcement
C17_Witness ==
  /\ pc = "loop" /\ cmd = "NextTrack" /\ mid.track = pre.track + 1
  /\ Len(SelectSeq(calls, IsPoll)) = 1 /\ calls[PollPos - 1].op = "announce"

\* C18: a byte other than 'q', space and ESC, and a poll that finds no byte, yield
\* no command: the command step leaves current_track, is_playing and is_running
\* alone and calls neither pause nor start_track.
C18_OtherByteIgnored ==
  (CommandStepDone /\ SelectSeq(calls, IsRead) # <<>> /\ exit_code # 0
     /\ (n0 # 1 \/ ch \notin {"q", " ", ESC}))
    => /\ cmd = "None"
       /\ CmdResult.track = pre.track
       /\ CmdResult.playing = pre.playing
       /\ CmdResult.running = pre.running
       /\ CmdResult.n_start = pre.n_start
       /\ CmdResult.n_announce = pre.n_announce
       /\ CmdCalls = <<>>
       /\ Len(SelectSeq(calls, IsRead)) = 1
       /\ (pc = "exited" => AfterPoll)

\* the byte 'x' has been read and ignored
C18_Witness ==
  /\ pc = "delay" /\ n0 = 1 /\ ch = "x" /\ cmd = "None" /\ running
  /\ calls = <<Ev("read", 1, FALSE)>>

\* C19: no step of the loop that changes current_track changes is_playing, and no
\* step that changes is_playing changes current_track or is_running.
C19_Frames ==
  [][(pc \in {"read", "seq0", "seq1", "delay"} =>
        (/\ (track' # track) => (playing' = playing)
         /\ (playing' # playing) => (track' = track /\ running' = running)))]_vars

\* a right arrow pressed while paused started the next track and the session is
\* still flagged as paused
C19_Witness ==
  /\ pc = "delay" /\ cmd = "NextTrack" /\ ~pre.playing /\ ~playing
  /\ track = pre.track + 1 /\ n_start = pre.n_start + 1 /\ eng_playing

\* ---- unattended playback ----------------------------------------------------------
\* The run in which nobody types and the engine never refuses a track: the same
\* steps as in Next without KeyArrives (so the escape reads never occur) and with
\* every start_track call succeeding.
StartOk == \A i \in DOMAIN calls' : calls'[i].op # "error"

LiveInitialStart == InitialStart /\ StartOk
LivePollTrackEnd == PollTrackEnd /\ StartOk

LiveProgram ==
  \/ ParseArgs \/ SdlInit \/ PlayerInit \/ LoadFile \/ ValidateTrack
  \/ EnterRawMode \/ LiveInitialStart
  \/ LoopTest \/ ReadKey \/ LivePollTrackEnd

LiveNext == LiveProgram \/ TrackEnds

\* The loop never blocks (non-blocking read at line 152, bounded SDL_Delay at line
\* 184), so the program keeps taking steps; the engine finishes every track it plays.
LiveSpec == Init /\ [][LiveNext]_vars /\ WF_vars(LiveProgram) /\ WF_vars(TrackEnds)

\* C20: with no input, is_playing true and every start succeeding, a running
\* session always ends (is_running false, exit status 0); each natural completion
\* either moves exactly one track forward or ends the session, and the number of
\* tracks started after the first equals the distance travelled, so at most
\* track_count - current_track completions occur.
C20_Terminates ==
  /\ (pc \in {"loop", "read", "delay"} /\ running /\ playing)
       ~> (~running /\ pc = "exited" /\ exit_code = 0)
  /\ [][(pc = "delay" /\ eng_ended) =>
          \/ (running' /\ track' = track + 1 /\ track' < track_count)
          \/ (~running' /\ track' = track)]_vars
  /\ [](pc \in {"loop", "read", "delay"} =>
          (playing /\ track < track_count /\ n_start - 1 = track - (opt_track - 1)))

\* a file of three tracks was played from the first track to the end and the
\* session ended by itself
C20_Witness ==
  /\ pc = "exited" /\ exit_code = 0 /\ ~running /\ playing /\ ~single
  /\ opt_track = 1 /\ track_count = 3 /\ track = 2 /\ n_start = 3 /\ PollEnded
====
